---- MODULE Spec2Model ----
(***************************************************************************)
(* Model of futures::future::Shared (src/src/future/shared.rs).            *)
(*                                                                         *)
(* One Inner is shared by every handle.  Each task owns at most one handle *)
(* and calls poll on it.  A poll call is split into one step per access to *)
(* shared memory (the atomic flag, the try-lock of the drive slot, the     *)
(* RwLock of the state), so that every interleaving of concurrent poll     *)
(* calls is a behaviour of the model.                                      *)
(*                                                                         *)
(* Guard lifetimes.  In `let ref mut state = *self.inner.state.write()     *)
(* .unwrap();` (lines 83 and 160) the guard is a temporary of a `let` with *)
(* a `ref` binding, so it lives to the end of the enclosing function body; *)
(* `drop(state)` at line 87 drops a `&mut State`, not the guard.  The      *)
(* write lock taken by store_result is therefore held until store_result   *)
(* returns, and the one taken at line 160 until poll returns.  The drive   *)
(* guard `original_future_option` lives to the end of its match arm (line  *)
(* 156) or to a `return` inside it.                                        *)
(*                                                                         *)
(* result_ready is an atomic; loads and stores are modelled as atomic      *)
(* steps on a single value.                                                *)
(***************************************************************************)
EXTENDS Integers, Sequences, FiniteSets, TLC

\* ------------------------------------------------------------- bounds
NumTasks == 2         \* tasks (threads), each may own one handle
MaxK == 2             \* the computation completes on its K-th poll, K in 1..MaxK
MaxSpurious == 1      \* polls made without the task having been unparked

Tasks == 1..NumTasks
NoTask == 0
PollsCap == MaxK + 2  \* saturation of the poll counter of the computation
ArcsCap == MaxK + 1   \* saturation of the allocation counter

VARIABLES
    original_future,  \* Inner.original_future: [locked, data]
    result_ready,     \* Inner.result_ready
    state,            \* Inner.state: the State value behind the RwLock
    state_lock,       \* the RwLock itself: [writer, readers, poisoned]
    fut,              \* the underlying computation F: [k, kind, polls, task]
    arcs,             \* number of Arc allocations made by SharedItem/SharedError::new
    handle,           \* handle[t]: "none", "live" or "dropped"
    pc,               \* pc[t]: position of task t inside poll, or "idle"
    guard,            \* guard[t]: t holds the drive guard original_future_option
    result,           \* result[t]: argument / local `result` of the driving poll
    waiters,          \* waiters[t]: the Vec<Task> moved out by store_result
    ret,              \* ret[t]: what t's most recent finished poll returned
    notified,         \* notified[t]: t was unparked since its last poll began
    panic,            \* panic[t]: message of the panic that ended t, or ""
    first_ready,      \* history: the first ready value any poll returned
    after,            \* history: after[t], t's current poll began after first_ready
    parked,           \* history: parked[t], entries pushed for t at line 164
                      \*   minus unparks of t issued at line 90
    spurious,         \* polls begun without a pending unpark (bounded)
    woken             \* history: woken[t], store_result has unparked t (line 90)

vars == <<original_future, result_ready, state, state_lock, fut, arcs, handle,
          pc, guard, result, waiters, ret, notified, panic, first_ready, after,
          parked, spurious, woken>>

\* ------------------------------------------------------------- values
\* Result<SharedItem<T>, SharedError<E>>: the variant and the identity of the Arc.
Ok(a) == [tag |-> "Ok", arc |-> a]
Err(a) == [tag |-> "Err", arc |-> a]
None == [tag |-> "None", arc |-> 0]

\* Poll<SharedItem, SharedError> = Result<Async<SharedItem>, SharedError>.
NotReady == [tag |-> "NotReady", arc |-> 0]
Ready(a) == [tag |-> "Ready", arc |-> a]
IsReady(v) == v.tag \in {"Ready", "Err"}

\* State<T, E>
Waiting(ws) == [tag |-> "Waiting", waiters |-> ws, result |-> None]
Done(r) == [tag |-> "Done", waiters |-> <<>>, result |-> r]

\* Faulty variant of clone: a deep copy into a new allocation.
clone_deep(r) == [tag |-> r.tag, arc |-> r.arc + 1]

\* SharedItem::clone / SharedError::clone: a new handle on the same Arc.
clone(r) == [tag |-> r.tag, arc |-> r.arc]

\* Faulty variant of map_ready: an error is handed out as a value.
map_ready_all(r) == Ready(r.arc)

\* result.map(Async::Ready): Ok(item) becomes Ok(Ready(item)), Err(e) stays Err(e).
map_ready(r) == IF r.tag = "Ok" THEN Ready(r.arc) ELSE [tag |-> "Err", arc |-> r.arc]

\* SharedItem::new / SharedError::new: the n-th Arc allocated.
new_arc(n) == IF n < ArcsCap THEN n + 1 ELSE n

\* ------------------------------------------------- external collaborators
\* lock::Lock<T>, the drive slot: try_lock succeeds iff nobody holds the lock;
\* dropping the guard unlocks.
try_lock(l) == ~l.locked
lock(l) == [l EXCEPT !.locked = TRUE]
unlock(l) == [l EXCEPT !.locked = FALSE]

\* The underlying computation F: its poll number f.k (and any later one) is
\* ready with f.kind; an earlier poll is not ready and leaves the polling task
\* registered for a wake-up.
F_poll(f, t) ==
    LET n == IF f.polls < PollsCap THEN f.polls + 1 ELSE f.polls
    IN  IF f.polls + 1 >= f.k
        THEN [out |-> f.kind, f |-> [f EXCEPT !.polls = n]]
        ELSE [out |-> "NotReady", f |-> [f EXCEPT !.polls = n, !.task = t]]

\* std::sync::RwLock around the state.
CanRead == ~state_lock.writer
CanWrite == ~state_lock.writer /\ state_lock.readers = 0

\* ------------------------------------------------------------- Shared::new
Init ==
    /\ original_future = [locked |-> FALSE, data |-> "Some"]
    /\ result_ready = FALSE
    /\ state = Waiting(<<>>)
    /\ state_lock = [writer |-> FALSE, readers |-> 0, poisoned |-> FALSE]
    /\ fut \in [k : 1..MaxK, kind : {"Ok", "Err"}, polls : {0}, task : {NoTask}]
    /\ arcs = 0
    /\ handle = [t \in Tasks |-> IF t = 1 THEN "live" ELSE "none"]
    /\ pc = [t \in Tasks |-> "idle"]
    /\ guard = [t \in Tasks |-> FALSE]
    /\ result = [t \in Tasks |-> None]
    /\ waiters = [t \in Tasks |-> <<>>]
    /\ ret = [t \in Tasks |-> None]
    /\ notified = [t \in Tasks |-> FALSE]
    /\ panic = [t \in Tasks |-> ""]
    /\ first_ready = None
    /\ after = [t \in Tasks |-> FALSE]
    /\ parked = [t \in Tasks |-> 0]
    /\ spurious = 0
    /\ woken = [t \in Tasks |-> FALSE]

\* ------------------------------------------------------ leaving poll
\* poll returns v: the drive guard, if held, is dropped.
Return(t, v) ==
    /\ pc' = [pc EXCEPT ![t] = "idle"]
    /\ ret' = [ret EXCEPT ![t] = v]
    /\ guard' = [guard EXCEPT ![t] = FALSE]
    /\ original_future' = IF guard[t] THEN unlock(original_future) ELSE original_future
    /\ first_ready' = IF first_ready.tag = "None" /\ IsReady(v) THEN v ELSE first_ready
    /\ panic' = panic

\* poll panics with msg: unwinding drops the drive guard, if held.
Unwind(t, msg) ==
    /\ pc' = [pc EXCEPT ![t] = "panicked"]
    /\ panic' = [panic EXCEPT ![t] = msg]
    /\ guard' = [guard EXCEPT ![t] = FALSE]
    /\ original_future' = IF guard[t] THEN unlock(original_future) ELSE original_future
    /\ UNCHANGED <<ret, first_ready>>

\* ------------------------------------------------------------- Shared::poll
\* Faulty variant of Poll: no fast path, every call contends for the drive lock.
PollNoFastPath(t) ==
    /\ handle[t] = "live"
    /\ pc[t] = "idle"
    /\ (ret[t].tag = "None" \/ notified[t] \/ spurious < MaxSpurious)
    /\ spurious' = IF ret[t].tag = "None" \/ notified[t] THEN spurious ELSE spurious + 1
    /\ notified' = [notified EXCEPT ![t] = FALSE]
    /\ after' = [after EXCEPT ![t] = first_ready.tag # "None"]
    /\ pc' = [pc EXCEPT ![t] = "try_lock"]
    /\ UNCHANGED <<original_future, result_ready, state, state_lock, fut, arcs, handle,
                   guard, result, waiters, ret, panic, first_ready, parked, woken>>

\* Entry and the first load of result_ready.
Poll(t) ==
    /\ handle[t] = "live"
    /\ pc[t] = "idle"
    /\ (ret[t].tag = "None" \/ notified[t] \/ spurious < MaxSpurious)
    /\ spurious' = IF ret[t].tag = "None" \/ notified[t] THEN spurious ELSE spurious + 1
    /\ notified' = [notified EXCEPT ![t] = FALSE]
    /\ after' = [after EXCEPT ![t] = first_ready.tag # "None"]
    /\ pc' = [pc EXCEPT ![t] = IF result_ready THEN "read_result" ELSE "try_lock"]
    /\ UNCHANGED <<original_future, result_ready, state, state_lock, fut, arcs, handle,
                   guard, result, waiters, ret, panic, first_ready, parked, woken>>

\* read_result: self.inner.state.read().unwrap()
ReadLock(t) ==
    /\ pc[t] = "read_result"
    /\ CanRead
    /\ IF state_lock.poisoned
       THEN Unwind(t, "PoisonError") /\ UNCHANGED state_lock
       ELSE /\ state_lock' = [state_lock EXCEPT !.readers = @ + 1]
            /\ pc' = [pc EXCEPT ![t] = "read_match"]
            /\ UNCHANGED <<original_future, guard, ret, panic, first_ready>>
    /\ UNCHANGED <<result_ready, state, fut, arcs, handle, result, waiters, notified,
                   after, parked, spurious, woken>>

\* read_result: the match under the read guard, and the return through poll.
ReadMatch(t) ==
    /\ pc[t] = "read_match"
    /\ state_lock' = [state_lock EXCEPT !.readers = @ - 1]
    /\ IF state.tag = "Done"
       THEN Return(t, map_ready(clone(state.result)))
       ELSE Unwind(t, "read_result() was called but State is not Done")
    /\ UNCHANGED <<result_ready, state, fut, arcs, handle, result, waiters, notified,
                   after, parked, spurious, woken>>

\* Faulty variant of TryLock: the Some arm is entered whether or not the lock
\* was free.
TryLockNoExclusion(t) ==
    /\ pc[t] = "try_lock"
    /\ original_future' = lock(original_future)
    /\ guard' = [guard EXCEPT ![t] = TRUE]
    /\ pc' = [pc EXCEPT ![t] = "recheck"]
    /\ UNCHANGED <<result_ready, state, state_lock, fut, arcs, handle, result, waiters,
                   ret, notified, panic, first_ready, after, parked, spurious, woken>>

\* Faulty variant of TryLock: a blocking acquisition of the drive lock.
TryLockBlocking(t) ==
    /\ pc[t] = "try_lock"
    /\ try_lock(original_future)
    /\ original_future' = lock(original_future)
    /\ guard' = [guard EXCEPT ![t] = TRUE]
    /\ pc' = [pc EXCEPT ![t] = "recheck"]
    /\ UNCHANGED <<result_ready, state, state_lock, fut, arcs, handle, result, waiters,
                   ret, notified, panic, first_ready, after, parked, spurious, woken>>

\* match self.inner.original_future.try_lock()
TryLock(t) ==
    /\ pc[t] = "try_lock"
    /\ IF try_lock(original_future)
       THEN /\ original_future' = lock(original_future)
            /\ guard' = [guard EXCEPT ![t] = TRUE]
            /\ pc' = [pc EXCEPT ![t] = "recheck"]
       ELSE /\ pc' = [pc EXCEPT ![t] = "state_write"]
            /\ UNCHANGED <<original_future, guard>>
    /\ UNCHANGED <<result_ready, state, state_lock, fut, arcs, handle, result, waiters,
                   ret, notified, panic, first_ready, after, parked,
                   spurious, woken>>

\* Faulty variant of Recheck: the second load is left out.
RecheckSkipped(t) ==
    /\ pc[t] = "recheck"
    /\ pc' = [pc EXCEPT ![t] = "poll_original"]
    /\ UNCHANGED <<original_future, result_ready, state, state_lock, fut, arcs, handle,
                   guard, result, waiters, ret, notified, panic, first_ready, after,
                   parked, spurious, woken>>

\* The second load of result_ready, under the drive guard.
Recheck(t) ==
    /\ pc[t] = "recheck"
    /\ pc' = [pc EXCEPT ![t] = IF result_ready THEN "read_result" ELSE "poll_original"]
    /\ UNCHANGED <<original_future, result_ready, state, state_lock, fut, arcs, handle,
                   guard, result, waiters, ret, notified, panic, first_ready, after,
                   parked, spurious, woken>>

\* The body of PollOriginal, with what happens to the drive guard and to the
\* flag when the computation is ready left open.
PollOriginalWith(t, keepGuard, flag) ==
    /\ pc[t] = "poll_original"
    /\ IF original_future.data = "None"
       THEN /\ Unwind(t, "result_ready is false but original_future is None")
            /\ UNCHANGED <<fut, arcs, result, result_ready>>
       ELSE LET p == F_poll(fut, t)
                a == new_arc(arcs)
            IN  /\ fut' = p.f
                /\ IF p.out = "NotReady"
                   THEN /\ pc' = [pc EXCEPT ![t] = "drop_guard"]
                        /\ UNCHANGED <<arcs, result, result_ready, original_future,
                                       guard>>
                   ELSE /\ arcs' = a
                        /\ result' = [result EXCEPT
                                        ![t] = IF p.out = "Ok" THEN Ok(a) ELSE Err(a)]
                        /\ pc' = [pc EXCEPT ![t] = "store_result"]
                        /\ result_ready' = (result_ready \/ flag)
                        /\ guard' = [guard EXCEPT ![t] = keepGuard]
                        /\ original_future' = IF keepGuard THEN original_future
                                              ELSE unlock(original_future)
                /\ UNCHANGED <<ret, panic, first_ready>>
    /\ UNCHANGED <<state, state_lock, handle, waiters, notified, after, parked,
                   spurious, woken>>

\* Faulty variant of PollOriginal: the drive guard is dropped before store_result.
PollOriginalDropsGuard(t) == PollOriginalWith(t, FALSE, FALSE)

\* Faulty variant of PollOriginal: result_ready is stored before store_result.
PollOriginalSetsFlag(t) == PollOriginalWith(t, TRUE, TRUE)

\* match *original_future_option: poll the computation, wrap a ready outcome.
PollOriginal(t) ==
    /\ pc[t] = "poll_original"
    /\ IF original_future.data = "None"
       THEN /\ Unwind(t, "result_ready is false but original_future is None")
            /\ UNCHANGED <<fut, arcs, result>>
       ELSE LET p == F_poll(fut, t)
                a == new_arc(arcs)
            IN  /\ fut' = p.f
                /\ IF p.out = "NotReady"
                   THEN /\ pc' = [pc EXCEPT ![t] = "drop_guard"]
                        /\ UNCHANGED <<arcs, result>>
                   ELSE /\ arcs' = a
                        /\ result' = [result EXCEPT
                                        ![t] = IF p.out = "Ok" THEN Ok(a) ELSE Err(a)]
                        /\ pc' = [pc EXCEPT ![t] = "store_result"]
                /\ UNCHANGED <<original_future, guard, ret, panic, first_ready>>
    /\ UNCHANGED <<result_ready, state, state_lock, handle, waiters, notified, after,
                   parked, spurious, woken>>

\* Faulty variant of StoreResult: the waiters are unparked as soon as they are
\* taken out of the state, before result_ready is stored.
StoreResultUnparksFirst(t) ==
    /\ pc[t] = "store_result"
    /\ CanWrite
    /\ state.tag = "Waiting"
    /\ state' = Done(clone(result[t]))
    /\ state_lock' = [state_lock EXCEPT !.writer = TRUE]
    /\ pc' = [pc EXCEPT ![t] = "set_ready"]
    /\ notified' = [u \in Tasks |->
                      notified[u] \/ \E i \in DOMAIN state.waiters : state.waiters[i] = u]
    /\ woken' = [u \in Tasks |->
                   woken[u] \/ \E i \in DOMAIN state.waiters : state.waiters[i] = u]
    /\ parked' = [u \in Tasks |-> 0]
    /\ UNCHANGED <<original_future, result_ready, fut, arcs, handle, guard, result,
                   waiters, ret, panic, first_ready, after, spurious>>

\* store_result: take the write lock and mem::replace the state by Done.
StoreResult(t) ==
    /\ pc[t] = "store_result"
    /\ CanWrite
    /\ IF state_lock.poisoned
       THEN Unwind(t, "PoisonError") /\ UNCHANGED <<state, state_lock, waiters>>
       ELSE /\ state' = Done(clone(result[t]))
            /\ IF state.tag = "Waiting"
               THEN /\ waiters' = [waiters EXCEPT ![t] = state.waiters]
                    /\ state_lock' = [state_lock EXCEPT !.writer = TRUE]
                    /\ pc' = [pc EXCEPT ![t] = "set_ready"]
                    /\ UNCHANGED <<original_future, guard, ret, panic, first_ready>>
               ELSE /\ Unwind(t, "store_result() was called twice")
                    /\ state_lock' = [state_lock EXCEPT !.poisoned = TRUE]
                    /\ UNCHANGED waiters
    /\ UNCHANGED <<result_ready, fut, arcs, handle, result, notified, after, parked, spurious, woken>>

\* store_result: self.inner.result_ready.store(true)
SetReady(t) ==
    /\ pc[t] = "set_ready"
    /\ result_ready' = TRUE
    /\ pc' = [pc EXCEPT ![t] = "unpark"]
    /\ UNCHANGED <<original_future, state, state_lock, fut, arcs, handle, guard, result,
                   waiters, ret, notified, panic, first_ready, after, parked, spurious, woken>>

\* Faulty variant of Unpark: only the first waiter is unparked.
UnparkFirstOnly(t) ==
    /\ pc[t] = "unpark"
    /\ waiters[t] # <<>>
    /\ notified' = [notified EXCEPT ![Head(waiters[t])] = TRUE]
    /\ woken' = [woken EXCEPT ![Head(waiters[t])] = TRUE]
    /\ parked' = [parked EXCEPT ![Head(waiters[t])] = @ - 1]
    /\ waiters' = [waiters EXCEPT ![t] = <<>>]
    /\ UNCHANGED <<original_future, result_ready, state, state_lock, fut, arcs, handle,
                   pc, guard, result, ret, panic, first_ready, after, spurious>>

\* store_result: one iteration of `for task in waiters { task.unpark() }`
Unpark(t) ==
    /\ pc[t] = "unpark"
    /\ waiters[t] # <<>>
    /\ notified' = [notified EXCEPT ![Head(waiters[t])] = TRUE]
    /\ woken' = [woken EXCEPT ![Head(waiters[t])] = TRUE]
    /\ parked' = [parked EXCEPT ![Head(waiters[t])] = @ - 1]
    /\ waiters' = [waiters EXCEPT ![t] = Tail(@)]
    /\ UNCHANGED <<original_future, result_ready, state, state_lock, fut, arcs, handle,
                   pc, guard, result, ret, panic, first_ready, after, spurious>>

\* store_result returns result.map(Async::Ready); the write guard is dropped;
\* poll keeps the value in its local `result`.
StoreReturn(t) ==
    /\ pc[t] = "unpark"
    /\ waiters[t] = <<>>
    /\ state_lock' = [state_lock EXCEPT !.writer = FALSE]
    /\ result' = [result EXCEPT ![t] = map_ready(@)]
    /\ pc' = [pc EXCEPT ![t] = "clear_slot"]
    /\ UNCHANGED <<original_future, result_ready, state, fut, arcs, handle, guard,
                   waiters, ret, notified, panic, first_ready, after, parked, spurious, woken>>

\* Faulty variant of ClearSlot: the slot is left populated.
ClearSlotSkipped(t) ==
    /\ pc[t] = "clear_slot"
    /\ pc' = [pc EXCEPT ![t] = "return_result"]
    /\ UNCHANGED <<original_future, result_ready, state, state_lock, fut, arcs, handle,
                   guard, result, waiters, ret, notified, panic, first_ready, after,
                   parked, spurious, woken>>

\* *original_future_option = None
ClearSlot(t) ==
    /\ pc[t] = "clear_slot"
    /\ original_future' = [original_future EXCEPT !.data = "None"]
    /\ pc' = [pc EXCEPT ![t] = "return_result"]
    /\ UNCHANGED <<result_ready, state, state_lock, fut, arcs, handle, guard, result,
                   waiters, ret, notified, panic, first_ready, after, parked, spurious, woken>>

\* return result
ReturnResult(t) ==
    /\ pc[t] = "return_result"
    /\ Return(t, result[t])
    /\ result' = [result EXCEPT ![t] = None]
    /\ UNCHANGED <<result_ready, state, state_lock, fut, arcs, handle, waiters,
                   notified, after, parked, spurious, woken>>

\* Faulty variant of DropGuard: the slot is emptied whatever the computation
\* returned.
DropGuardClearsSlot(t) ==
    /\ pc[t] = "drop_guard"
    /\ original_future' = [locked |-> FALSE, data |-> "None"]
    /\ guard' = [guard EXCEPT ![t] = FALSE]
    /\ pc' = [pc EXCEPT ![t] = "state_write"]
    /\ UNCHANGED <<result_ready, state, state_lock, fut, arcs, handle, result, waiters,
                   ret, notified, panic, first_ready, after, parked, spurious, woken>>

DropGuardRetries(t) ==
    /\ pc[t] = "drop_guard"
    /\ original_future' = unlock(original_future)
    /\ guard' = [guard EXCEPT ![t] = FALSE]
    /\ pc' = [pc EXCEPT ![t] = "try_lock"]
    /\ UNCHANGED <<result_ready, state, state_lock, fut, arcs, handle, result, waiters,
                   ret, notified, panic, first_ready, after, parked,
                   spurious, woken>>

\* The computation was not ready: the arm ends and the drive guard is dropped.
DropGuard(t) ==
    /\ pc[t] = "drop_guard"
    /\ original_future' = unlock(original_future)
    /\ guard' = [guard EXCEPT ![t] = FALSE]
    /\ pc' = [pc EXCEPT ![t] = "state_write"]
    /\ UNCHANGED <<result_ready, state, state_lock, fut, arcs, handle, result, waiters,
                   ret, notified, panic, first_ready, after, parked,
                   spurious, woken>>

\* self.inner.state.write().unwrap()
StateWrite(t) ==
    /\ pc[t] = "state_write"
    /\ CanWrite
    /\ IF state_lock.poisoned
       THEN Unwind(t, "PoisonError") /\ UNCHANGED state_lock
       ELSE /\ state_lock' = [state_lock EXCEPT !.writer = TRUE]
            /\ pc' = [pc EXCEPT ![t] = "register"]
            /\ UNCHANGED <<original_future, guard, ret, panic, first_ready>>
    /\ UNCHANGED <<result_ready, state, fut, arcs, handle, result, waiters, notified,
                   after, parked, spurious, woken>>

\* Faulty variant of Register: NotReady is returned without parking the task.
RegisterNoPush(t) ==
    /\ pc[t] = "register"
    /\ state_lock' = [state_lock EXCEPT !.writer = FALSE]
    /\ IF state.tag = "Done"
       THEN Return(t, map_ready(clone(state.result)))
       ELSE Return(t, NotReady)
    /\ UNCHANGED <<result_ready, state, fut, arcs, handle, result, waiters, notified,
                   after, parked, spurious, woken>>

\* Faulty variant of Register: the task is parked without looking at the state.
RegisterAlwaysPush(t) ==
    /\ pc[t] = "register"
    /\ state_lock' = [state_lock EXCEPT !.writer = FALSE]
    /\ state' = [state EXCEPT !.waiters = Append(@, t)]
    /\ parked' = [parked EXCEPT ![t] = @ + 1]
    /\ Return(t, NotReady)
    /\ UNCHANGED <<result_ready, fut, arcs, handle, result, waiters, notified, after,
                   spurious, woken>>

\* The match under the write guard: return the cached result, or push
\* task::park() and return NotReady.  The guard is dropped on return.
Register(t) ==
    /\ pc[t] = "register"
    /\ state_lock' = [state_lock EXCEPT !.writer = FALSE]
    /\ IF state.tag = "Done"
       THEN /\ Return(t, map_ready(clone(state.result)))
            /\ UNCHANGED <<state, parked>>
       ELSE /\ state' = Waiting(Append(state.waiters, t))
            /\ parked' = [parked EXCEPT ![t] = @ + 1]
            /\ Return(t, NotReady)
    /\ UNCHANGED <<result_ready, fut, arcs, handle, result, waiters, notified, after,
                   spurious, woken>>

\* ------------------------------------------------------------ Shared::clone
Clone(t) ==
    /\ handle[t] = "none"
    /\ \E u \in Tasks : handle[u] = "live" /\ pc[u] = "idle"
    /\ handle' = [handle EXCEPT ![t] = "live"]
    /\ UNCHANGED <<original_future, result_ready, state, state_lock, fut, arcs, pc,
                   guard, result, waiters, ret, notified, panic, first_ready, after,
                   parked, spurious, woken>>

\* ------------------------------------------------------------ environment
\* The computation can make progress: it unparks the task that polled it last.
FutUnpark ==
    /\ fut.task # NoTask
    /\ notified' = [notified EXCEPT ![fut.task] = TRUE]
    /\ fut' = [fut EXCEPT !.task = NoTask]
    /\ UNCHANGED <<original_future, result_ready, state, state_lock, arcs, handle, pc,
                   guard, result, waiters, ret, panic, first_ready, after, parked, spurious, woken>>

\* ------------------------------------------------------------ specification
Step(t) ==
    \/ ReadLock(t) \/ ReadMatch(t) \/ TryLock(t) \/ Recheck(t) \/ PollOriginal(t)
    \/ StoreResult(t) \/ SetReady(t) \/ Unpark(t) \/ StoreReturn(t) \/ ClearSlot(t)
    \/ ReturnResult(t) \/ DropGuard(t) \/ StateWrite(t) \/ Register(t)

Next ==
    \/ \E t \in Tasks : Poll(t) \/ Step(t) \/ Clone(t)
    \/ FutUnpark

Spec == Init /\ [][Next]_vars

\* Fair scheduling: a thread inside poll keeps running, a task that was
\* unparked is polled again, and the computation wakes the task it parked.
RePoll(t) == notified[t] /\ Poll(t)

LiveSpec ==
    /\ Init
    /\ [][Next]_vars
    /\ \A t \in Tasks : WF_vars(Step(t)) /\ WF_vars(RePoll(t))
    /\ WF_vars(FutUnpark)

\* A handle is dropped between two polls (Shared has no Drop impl: only the
\* Arc count changes); its task never polls it again.
Drop(t) ==
    /\ handle[t] = "live"
    /\ pc[t] = "idle"
    /\ handle' = [handle EXCEPT ![t] = "dropped"]
    /\ UNCHANGED <<original_future, result_ready, state, state_lock, fut, arcs, pc,
                   guard, result, waiters, ret, notified, panic, first_ready, after,
                   parked, spurious, woken>>

NextDrop ==
    \/ \E t \in Tasks : Poll(t) \/ Step(t) \/ Clone(t) \/ Drop(t)
    \/ FutUnpark

\* Fair scheduling as in LiveSpec, with handles that may be dropped.
DropSpec ==
    /\ Init
    /\ [][NextDrop]_vars
    /\ \A t \in Tasks : WF_vars(Step(t)) /\ WF_vars(RePoll(t))
    /\ WF_vars(FutUnpark)

\* ------------------------------------------------------------- properties
InStore(t) == pc[t] \in {"set_ready", "unpark"}
Driving(t) == pc[t] \in {"recheck", "poll_original", "store_result", "set_ready",
                         "unpark", "clear_slot", "return_result", "drop_guard"}
ErrValue(a) == [tag |-> "Err", arc |-> a]

\* C1: the computation is polled only under the drive lock, which one thread
\* at a time holds; it is never polled after it was ready: it receives at most
\* K polls, and exactly K once the state is Done.
C1_SingleDrive ==
    /\ \A t \in Tasks : Driving(t) => guard[t] /\ original_future.locked
    /\ \A t, u \in Tasks : guard[t] /\ guard[u] => t = u
    /\ fut.polls <= fut.k
    /\ state.tag = "Done" => fut.polls = fut.k

C1_Witness ==
    /\ fut.k = MaxK
    /\ state.tag = "Done"
    /\ fut.polls = fut.k
    /\ \A t \in Tasks : pc[t] = "idle" /\ IsReady(ret[t])

\* C2: store_result is never entered while the state is Done; no poll panics
\* with "store_result() was called twice"; one outcome at most is ever built.
C2_StoreOnce ==
    /\ \A t \in Tasks : panic[t] # "store_result() was called twice"
    /\ \A t \in Tasks : pc[t] = "store_result" => state.tag = "Waiting"
    /\ arcs <= 1

C2_Witness ==
    \E t, u \in Tasks :
        /\ t # u
        /\ pc[t] = "set_ready"
        /\ state.tag = "Done"
        /\ pc[u] \in {"try_lock", "state_write"}

\* C3: a poll that began after some poll had returned ready returns ready with
\* the outcome of that first ready return (same variant, same allocation).
C3_Convergence ==
    \A t \in Tasks :
        after[t] => /\ pc[t] # "panicked"
                    /\ pc[t] = "idle" => ret[t] = first_ready

C3_Witness ==
    \E t, u \in Tasks :
        /\ t # u
        /\ after[t] /\ pc[t] = "idle" /\ IsReady(ret[t])
        /\ ~after[u] /\ pc[u] = "idle" /\ ret[u] = ret[t]

\* C4: a waiter entry is unparked by the driver at most once, and once
\* store_result has returned every entry ever pushed has been unparked: no idle
\* task whose last poll returned NotReady is left without a pending unpark.
C4_NoLostWakeup ==
    /\ \A t \in Tasks : parked[t] >= 0
    /\ (state.tag = "Done" /\ \A d \in Tasks : ~InStore(d)) =>
          \A t \in Tasks :
              /\ parked[t] = 0
              /\ (pc[t] = "idle" /\ ret[t] = NotReady) => notified[t]

C4_Witness ==
    \E d, t \in Tasks :
        /\ d # t
        /\ pc[d] = "clear_slot"
        /\ pc[t] = "idle" /\ ret[t] = NotReady /\ notified[t]
        /\ parked[t] = 0

\* C5: under fair scheduling, with every unparked task polling again, a handle
\* whose poll returned NotReady eventually has a poll that returns ready.
C5_EventuallyReady ==
    \A t \in Tasks : (ret[t] = NotReady) ~> IsReady(ret[t])

C5_Witness ==
    \E t \in Tasks :
        /\ ret[t] = NotReady
        /\ pc[t] = "read_match"
        /\ state.tag = "Done"
        /\ \A u \in Tasks : u # t => pc[u] = "idle" /\ IsReady(ret[u])

\* C6 as stated: whenever result_ready is true the drive slot is empty.
C6_SlotEmptyWhenReady == result_ready => original_future.data = "None"

\* C6 amended: when result_ready is true the drive slot is empty unless the
\* driver that stored the flag still holds the drive lock and has not yet
\* reached the assignment that empties it; an emptied slot stays empty.
C6_SlotEmptyOnceUnlocked ==
    /\ [](result_ready /\ original_future.data = "Some" =>
             /\ original_future.locked
             /\ \E d \in Tasks : guard[d] /\ pc[d] \in {"unpark", "clear_slot"})
    /\ [][original_future.data = "None" => original_future'.data = "None"]_vars

C6_Witness ==
    /\ result_ready
    /\ ~original_future.locked
    /\ original_future.data = "None"
    /\ \E t \in Tasks : pc[t] = "state_write"

\* C7: whenever result_ready is true the state is Done.
C7_ReadyImpliesDone == result_ready => state.tag = "Done"

C7_Witness ==
    \E d, t \in Tasks :
        /\ result_ready
        /\ pc[d] = "unpark" /\ waiters[d] # <<>>
        /\ pc[t] = "read_result"

\* C8: a poll that begins with result_ready true goes to read_result without
\* the drive guard; its steps change neither the drive slot nor its lock, nor
\* the flag, the state, the waiters or the computation, and it returns ready.
C8_FastPathFrame ==
    [][\A t \in Tasks :
          /\ (pc[t] = "idle" /\ pc'[t] # "idle" /\ result_ready) =>
                (pc'[t] = "read_result" /\ ~guard'[t])
          /\ (pc[t] \in {"read_result", "read_match"} /\ ~guard[t] /\ pc'[t] # pc[t]) =>
                /\ UNCHANGED <<original_future, result_ready, state, fut, arcs,
                               waiters, parked>>
                /\ pc'[t] \in {"read_match", "idle"}
                /\ pc'[t] = "idle" => IsReady(ret'[t])]_vars

C8_Witness ==
    \E t \in Tasks :
        /\ t # 1
        /\ ret[t].tag = "None"
        /\ pc[t] = "read_match" /\ ~guard[t]
        /\ original_future.data = "None"

\* C9: when the computation fails, one error is wrapped and stored as
\* Done(Err); the driver and every other poll that returns ready return that
\* same wrapped error; every poll begun after it was first returned returns it;
\* the computation is not polled again.
C9_ErrorCached ==
    fut.kind = "Err" =>
        /\ arcs <= 1
        /\ fut.polls <= fut.k
        /\ state.tag = "Done" => state.result = Err(1)
        /\ \A t \in Tasks :
              /\ pc[t] = "return_result" => result[t] = ErrValue(1)
              /\ IsReady(ret[t]) => ret[t] = ErrValue(1)
              /\ (after[t] /\ pc[t] = "idle") => ret[t] = ErrValue(1)

C9_Witness ==
    \E t, u \in Tasks :
        /\ t # u
        /\ fut.kind = "Err"
        /\ after[t] /\ pc[t] = "idle" /\ ret[t] = ErrValue(1)
        /\ pc[u] = "idle" /\ ret[u] = ErrValue(1)
        /\ fut.polls = fut.k

\* C10: no poll holds the drive lock with result_ready false and the slot
\* empty; no poll panics with "result_ready is false but original_future is
\* None".
C10_SlotPresentWhenDriven ==
    \A t \in Tasks :
        /\ panic[t] # "result_ready is false but original_future is None"
        /\ pc[t] = "poll_original" => original_future.data = "Some"

C10_Witness ==
    \E t \in Tasks :
        /\ guard[t]
        /\ pc[t] = "read_result"
        /\ original_future.data = "None"

\* C11: whatever happens to the other handles (dropped, or never polled again),
\* a handle that is kept and whose poll returned NotReady eventually has a poll
\* that returns ready.
C11_IndependentObservers ==
    \A t \in Tasks :
        (ret[t] = NotReady /\ handle[t] = "live") ~>
            (IsReady(ret[t]) \/ handle[t] = "dropped")

InPoll(t) == pc[t] \notin {"idle", "panicked"}
HoldsStateLock(t) == pc[t] \in {"read_match", "set_ready", "unpark", "register"}

\* C12 as stated: a thread inside poll can always take its next step.
C12_NeverWaits == \A t \in Tasks : InPoll(t) => ENABLED Step(t)

\* C12 amended: a thread inside poll never waits at the drive lock; it can be
\* unable to step only at an acquisition of the state RwLock (read at line 72,
\* write at lines 83 and 160) that another thread holds, and that holder can
\* step: it waits for nothing.
C12_WaitsOnlyForStateLock ==
    \A t \in Tasks :
        (InPoll(t) /\ ~ENABLED Step(t)) =>
            /\ pc[t] \in {"read_result", "store_result", "state_write"}
            /\ state_lock.writer \/ state_lock.readers > 0
            /\ \E h \in Tasks : h # t /\ HoldsStateLock(h)
            /\ \A h \in Tasks : HoldsStateLock(h) => ENABLED Step(h)

C12_Witness ==
    \E t, d \in Tasks :
        /\ pc[t] = "state_write"
        /\ pc[d] = "unpark"
        /\ ~ENABLED Step(t)
        /\ ENABLED Step(d)

\* C13: the state is Done and result_ready is true before store_result issues
\* its first unpark; a poll begun by a task that store_result has unparked takes
\* the fast path, and every poll such a task finishes returns ready.
C13_WakeOrdering ==
    /\ [](\A d \in Tasks : pc[d] = "unpark" => state.tag = "Done" /\ result_ready)
    /\ [](\A t \in Tasks : woken[t] => state.tag = "Done" /\ result_ready)
    /\ [][\A t \in Tasks :
            /\ (woken[t] /\ pc[t] = "idle" /\ pc'[t] # "idle") => pc'[t] = "read_result"
            /\ (woken[t] /\ pc[t] # "idle" /\ pc'[t] = "idle") => IsReady(ret'[t])]_vars

C13_Witness ==
    \E t \in Tasks :
        /\ woken[t]
        /\ ~notified[t]
        /\ pc[t] = "idle"
        /\ IsReady(ret[t])

\* Entries for task t in the lists that store_result calls have taken and not
\* yet walked through.
Taken(t) ==
    Cardinality(UNION {{<<d, i>> : i \in {j \in DOMAIN waiters[d] : waiters[d][j] = t}} :
                       d \in Tasks})

\* C14: once the state is Done nothing is appended to a waiter list and the
\* registration step returns the cached outcome; the list store_result took at
\* the transition holds every entry pushed and not yet unparked.
C14_NoWaiterAfterDone ==
    /\ [](state.tag = "Done" =>
             /\ state.waiters = <<>>
             /\ \A t \in Tasks : parked[t] = Taken(t))
    /\ [][state.tag = "Done" =>
             /\ state'.waiters = <<>>
             /\ \A t \in Tasks :
                   /\ parked'[t] <= parked[t]
                   /\ (pc[t] = "register" /\ pc'[t] = "idle") =>
                         ret'[t] = map_ready(state.result)]_vars

C14_Witness ==
    \E t \in Tasks :
        /\ pc[t] = "register"
        /\ state.tag = "Done"
        /\ ret[t] = NotReady

Writing(t) == pc[t] \in {"store_result", "set_ready", "clear_slot"}
HasOutcome(t) == result[t].tag \in {"Ok", "Err", "Ready"}

\* C15: a poll returns NotReady only from the registration step, holding the
\* write lock, having found the state Waiting and appended one entry for its
\* task; nothing else appends to the list; the flag, the slot and the variant
\* of the state are written only by a call that holds an outcome of the
\* computation, and such a call returns ready.
C15_NotReadyFrame ==
    /\ [][\A t \in Tasks :
            (pc[t] # "idle" /\ pc'[t] = "idle" /\ ret'[t] = NotReady) =>
                /\ pc[t] = "register"
                /\ state_lock.writer
                /\ state.tag = "Waiting"
                /\ state' = Waiting(Append(state.waiters, t))
                /\ UNCHANGED <<original_future, result_ready>>
                /\ original_future.data = "Some"]_vars
    /\ [][(state'.tag = "Waiting" /\ state'.waiters # state.waiters) =>
             \E t \in Tasks : /\ pc[t] = "register" /\ pc'[t] = "idle"
                              /\ ret'[t] = NotReady
                              /\ state'.waiters = Append(state.waiters, t)]_vars
    /\ [][(result_ready' # result_ready \/ state'.tag # state.tag
              \/ original_future'.data # original_future.data) =>
             \E t \in Tasks : Writing(t) /\ pc'[t] # pc[t] /\ HasOutcome(t)]_vars
    /\ [](\A t \in Tasks :
             pc[t] \in {"store_result", "set_ready", "unpark", "clear_slot",
                        "return_result"} => HasOutcome(t))
    /\ [][\A t \in Tasks : (HasOutcome(t) /\ pc'[t] = "idle") => IsReady(ret'[t])]_vars

C15_Witness ==
    \E t \in Tasks :
        /\ pc[t] = "idle"
        /\ ret[t] = NotReady
        /\ fut.task = t
        /\ state = Waiting(<<t>>)
        /\ original_future = [locked |-> FALSE, data |-> "Some"]
        /\ ~result_ready

RecheckTaken(t) == guard[t] /\ pc[t] \in {"read_result", "read_match"}

\* C16 as stated: no poll that found result_ready false at the first load and
\* then acquired the drive lock finds it true at the second load.
C16_RecheckNeverTaken == \A t \in Tasks : ~RecheckTaken(t)

\* C16 amended: the second load can find result_ready true, and only after
\* the driver has finished: the state is Done, the slot is empty and the
\* computation has had its last poll.
C16_RecheckTakenOnlyAfterDone ==
    \A t \in Tasks :
        RecheckTaken(t) =>
            /\ result_ready
            /\ state.tag = "Done"
            /\ original_future.data = "None"
            /\ fut.polls = fut.k
            /\ \A u \in Tasks : u # t => ~Driving(u)

C16_Witness ==
    \E t \in Tasks :
        /\ guard[t]
        /\ pc[t] = "read_match"
        /\ ret[t].tag = "None"
        /\ state.tag = "Done"

\* Position of a program point on the paths through poll and store_result.
Rank(l) ==
    CASE l = "idle"          -> 0
      [] l = "try_lock"      -> 1
      [] l = "recheck"       -> 2
      [] l = "poll_original" -> 3
      [] l = "store_result"  -> 4
      [] l = "drop_guard"    -> 4
      [] l = "set_ready"     -> 5
      [] l = "state_write"   -> 5
      [] l = "unpark"        -> 6
      [] l = "register"      -> 6
      [] l = "clear_slot"    -> 7
      [] l = "return_result" -> 8
      [] l = "read_result"   -> 9
      [] l = "read_match"    -> 10
      [] OTHER               -> 11

StateReaders == {h \in Tasks : pc[h] = "read_match"}
StateWriters == {h \in Tasks : pc[h] \in {"set_ready", "unpark", "register"}}

\* C17: every poll call returns; a task that is about to try the drive lock
\* holds no state lock (the state lock's holders are exactly the tasks past
\* an acquisition of it); and a call only moves forward through its program
\* points, so it acquires each lock a bounded number of times and never
\* retries (the unpark loop shortens its list at every turn).
C17_PollTerminates ==
    /\ [](/\ state_lock.readers = Cardinality(StateReaders)
          /\ state_lock.writer <=> StateWriters # {}
          /\ Cardinality(StateWriters) <= 1
          /\ \A t \in Tasks : pc[t] = "try_lock" => ~guard[t] /\ ~HoldsStateLock(t))
    /\ [][\A t \in Tasks :
            /\ (pc'[t] # pc[t] /\ pc'[t] # "idle") => Rank(pc'[t]) > Rank(pc[t])
            /\ (pc[t] = "unpark" /\ pc'[t] = "unpark" /\ waiters'[t] # waiters[t])
                   => Len(waiters'[t]) < Len(waiters[t])]_vars
    /\ \A t \in Tasks : InPoll(t) ~> pc[t] = "idle"

C17_Witness ==
    \E t, h \in Tasks :
        /\ pc[t] = "store_result"
        /\ guard[t]
        /\ pc[h] = "register"
        /\ ~ENABLED Step(t)

\* C18: result_ready never goes from true to false and is stored once, by the
\* one store_result call, while it is still false; once the state is Done it
\* never changes again, neither back to Waiting nor to another outcome.
C18_Monotonic ==
    /\ [][/\ result_ready => result_ready'
          /\ state.tag = "Done" => state' = state
          /\ result_ready' # result_ready =>
                 \E t \in Tasks : pc[t] = "set_ready" /\ pc'[t] = "unpark"]_vars
    /\ [](\A t \in Tasks :
             /\ pc[t] = "set_ready" => ~result_ready /\ state.tag = "Done"
             /\ pc[t] = "store_result" => state.tag = "Waiting"
             /\ panic[t] # "store_result() was called twice")

C18_Witness ==
    \E t, u \in Tasks :
        /\ t # u
        /\ result_ready
        /\ state.tag = "Done"
        /\ IsReady(ret[t])
        /\ pc[u] = "read_match"
        /\ ~guard[u]

\* C19: a task is in read_result only after it loaded result_ready as true,
\* and then the state is Done: both while it waits for the read lock and once
\* it holds it; the panic of read_result never happens.
C19_ReadOnlyWhenDone ==
    \A t \in Tasks :
        /\ pc[t] \in {"read_result", "read_match"} => result_ready /\ state.tag = "Done"
        /\ pc[t] = "read_match" => state_lock.readers > 0 /\ ~state_lock.writer
        /\ panic[t] # "read_result() was called but State is not Done"

C19_Witness ==
    /\ state_lock.readers = NumTasks
    /\ \A t \in Tasks : pc[t] = "read_match"
    /\ state.tag = "Done"

Quiescent == \A t \in Tasks : pc[t] = "idle"

\* C20: when no task is inside poll, result_ready is true exactly when the
\* state is Done, exactly when the drive slot is empty; the locks are free;
\* and when the outcome is there, no waiter list is left anywhere and every
\* task that was pushed has been unparked.
C20_QuiescentConsistency ==
    Quiescent =>
        /\ result_ready <=> state.tag = "Done"
        /\ result_ready <=> original_future.data = "None"
        /\ ~original_future.locked
        /\ ~state_lock.writer /\ state_lock.readers = 0
        /\ result_ready =>
               /\ state.waiters = <<>>
               /\ \A t \in Tasks : waiters[t] = <<>> /\ parked[t] = 0

C20_Witness ==
    /\ Quiescent
    /\ result_ready
    /\ state.tag = "Done"
    /\ original_future.data = "None"
    /\ \E t \in Tasks : woken[t] /\ ret[t] = NotReady

====
